---------------------------- MODULE Spec2Model ----------------------------
(***************************************************************************)
(* Model of qiskit/aqua/utils/mcmt.py: the multiple-control,                *)
(* multiple-target gate built from a V-chain of ccx gates.                  *)
(*                                                                         *)
(* A qubit is a pair <<register name, index>>, as in the qiskit release    *)
(* the file was written for.  The circuit qc is the sequence of gates      *)
(* appended so far.  A gate is a record [gate, ctls, tgt]: "ccx" has two   *)
(* controls, "u" (the caller's single_control_gate_fun) has one.           *)
(*                                                                         *)
(* An operator that models a Python function returns [qc, err]: the        *)
(* circuit as the function leaves it and the exception it raised ("none"   *)
(* when it returns normally).  The model is of the default interpreter,    *)
(* where assert statements are executed.                                   *)
(***************************************************************************)
EXTENDS Integers, Sequences, FiniteSets

VARIABLES
    qc,          \* the QuantumCircuit's gate sequence (self)
    pc,          \* "idle" | "returned" | "simulated"
    pre,         \* qc as it was when the last call of mcmt started
    q_controls,  \* arguments of the last call: [kind, qubits]
    q_ancillae,
    q_targets,
    mode,
    err,         \* exception the last call raised, "none" if it returned
    cvals,       \* control values the emitted gates were simulated on
    sim          \* [bit, app] after that simulation

vars == <<qc, pc, pre, q_controls, q_ancillae, q_targets, mode, err, cvals, sim>>

----------------------------------------------------------------------------
\* Bounds of the model.

\* most controls, ancillae and targets of one call
MaxK == 4
MaxA == 3
MaxM == 2
\* mcmt is called on circuits that hold at most this many gates
MaxPre == 1

----------------------------------------------------------------------------
\* Qubits and gates.

Regs == {"c", "t", "a"}

\* a qubit of a register the circuit does not hold
BadQubit == <<"x", 0>>

RegSize(r) == IF r = "c" THEN MaxK ELSE IF r = "t" THEN MaxM ELSE MaxA

Qubits == UNION {{<<r, i>> : i \in 0..(RegSize(r) - 1)} : r \in Regs}

Ccx(c1, c2, t) == [gate |-> "ccx", ctls |-> <<c1, c2>>, tgt |-> t]

U(c, t) == [gate |-> "u", ctls |-> <<c>>, tgt |-> t]

\* Python's s[i] on a list: 0-based, a negative i counts from the end.
InRange(s, i) == -Len(s) <= i /\ i < Len(s)

At(s, i) == IF i >= 0 THEN s[i + 1] ELSE s[Len(s) + i + 1]

Ret(c, e) == [qc |-> c, err |-> e]

----------------------------------------------------------------------------
\* _ccx_v_chain_compute

\* the assert with its bound off by one
AssertStrict(anci_idx, ancillary_qubits) == anci_idx + 2 < Len(ancillary_qubits)

\* the assert of the loop body
AssertAncilla(anci_idx, ancillary_qubits) == anci_idx + 1 < Len(ancillary_qubits)

RECURSIVE ComputeLoop(_, _, _, _, _)
\* for idx in range(2, len(control_qubits)), from idx on
ComputeLoop(c, control_qubits, ancillary_qubits, idx, anci_idx) ==
    IF idx >= Len(control_qubits) THEN Ret(c, "none")
    ELSE IF ~AssertAncilla(anci_idx, ancillary_qubits) THEN Ret(c, "AssertionError")
    ELSE ComputeLoop(
            Append(c, Ccx(At(control_qubits, idx),
                          At(ancillary_qubits, anci_idx),
                          At(ancillary_qubits, anci_idx + 1))),
            control_qubits, ancillary_qubits, idx + 1, anci_idx + 1)

_ccx_v_chain_compute(c, control_qubits, ancillary_qubits) ==
    IF ~InRange(control_qubits, 0) \/ ~InRange(control_qubits, 1)
          \/ ~InRange(ancillary_qubits, 0)
    THEN Ret(c, "IndexError")
    ELSE ComputeLoop(
            Append(c, Ccx(At(control_qubits, 0), At(control_qubits, 1),
                          At(ancillary_qubits, 0))),
            control_qubits, ancillary_qubits, 2, 0)

----------------------------------------------------------------------------
\* _ccx_v_chain_uncompute

RECURSIVE UncomputeLoop(_, _, _, _, _)
\* for idx in range(2, len(control_qubits))[::-1], from idx down;
\* the result also carries anci_idx as the loop leaves it
UncomputeLoop(c, control_qubits, ancillary_qubits, idx, anci_idx) ==
    IF idx < 2 THEN [qc |-> c, err |-> "none", anci_idx |-> anci_idx]
    ELSE IF ~InRange(ancillary_qubits, anci_idx - 1)
              \/ ~InRange(ancillary_qubits, anci_idx)
    THEN [qc |-> c, err |-> "IndexError", anci_idx |-> anci_idx]
    ELSE UncomputeLoop(
            Append(c, Ccx(At(control_qubits, idx),
                          At(ancillary_qubits, anci_idx - 1),
                          At(ancillary_qubits, anci_idx))),
            control_qubits, ancillary_qubits, idx - 1, anci_idx - 1)

\* the ccx after the loop
UncomputeLast(c, control_qubits, ancillary_qubits, anci_idx) ==
    IF ~InRange(control_qubits, 0) \/ ~InRange(control_qubits, 1)
          \/ ~InRange(ancillary_qubits, anci_idx)
    THEN Ret(c, "IndexError")
    ELSE Ret(Append(c, Ccx(At(control_qubits, 0), At(control_qubits, 1),
                           At(ancillary_qubits, anci_idx))), "none")

\* a replay of the folds in the order of the compute half
UncomputeForward(c, control_qubits, ancillary_qubits) ==
    _ccx_v_chain_compute(c, control_qubits, ancillary_qubits)

\* the loop without the ccx that follows it
UncomputeNoLast(c, control_qubits, ancillary_qubits) ==
    LET l == UncomputeLoop(c, control_qubits, ancillary_qubits,
                           Len(control_qubits) - 1, Len(ancillary_qubits) - 1)
    IN  Ret(l.qc, l.err)

_ccx_v_chain_uncompute(c, control_qubits, ancillary_qubits) ==
    LET l == UncomputeLoop(c, control_qubits, ancillary_qubits,
                           Len(control_qubits) - 1, Len(ancillary_qubits) - 1)
    IN  IF l.err # "none" THEN Ret(l.qc, l.err)
        ELSE UncomputeLast(l.qc, control_qubits, ancillary_qubits, l.anci_idx)

----------------------------------------------------------------------------
\* mcmt

\* self._check_qubit(qubit): the qubit is one of the circuit's
_check_qubit(qubit) == qubit \in Qubits

\* self._check_dups(qubits): no qubit occurs twice
_check_dups(qubits) ==
    \A i, j \in 1..Len(qubits) : qubits[i] = qubits[j] => i = j

\* the checks of all_qubits without the call of _check_dups
CheckNoDups(all_qubits) ==
    IF \E i \in 1..Len(all_qubits) : ~_check_qubit(all_qubits[i])
    THEN "check_qubit"
    ELSE "none"

\* the two checks of all_qubits; the exception raised, "none" if none
CheckAll(all_qubits) ==
    IF \E i \in 1..Len(all_qubits) : ~_check_qubit(all_qubits[i])
    THEN "check_qubit"
    ELSE IF ~_check_dups(all_qubits) THEN "check_dups"
    ELSE "none"

RECURSIVE ApplyTargets(_, _, _, _)
\* for qubit in target_qubits: single_control_gate_fun(self, ctl, qubit),
\* from the i-th target on
ApplyTargets(c, ctl, target_qubits, i) ==
    IF i > Len(target_qubits) THEN c
    ELSE ApplyTargets(Append(c, U(ctl, target_qubits[i])), ctl, target_qubits, i + 1)

\* the single-control case with the gate applied to the first target only
SingleControlFirst(c, controls, target_qubits) ==
    Ret(Append(c, U(At(controls, 0), At(target_qubits, 0))), "none")

\* if len(q_controls) == 1: one gate per target, then return
SingleControl(c, controls, target_qubits) ==
    Ret(ApplyTargets(c, At(controls, 0), target_qubits, 1), "none")

\* the mode == 'basic' branch
Basic(c, control_qubits, ancillary_qubits, target_qubits) ==
    LET ancn == Len(ancillary_qubits)
        cmp  == _ccx_v_chain_compute(c, control_qubits, ancillary_qubits)
    IN  IF cmp.err # "none" THEN cmp
        ELSE IF ~InRange(ancillary_qubits, ancn - 1) THEN Ret(cmp.qc, "IndexError")
        ELSE _ccx_v_chain_uncompute(
                ApplyTargets(cmp.qc, At(ancillary_qubits, ancn - 1), target_qubits, 1),
                control_qubits, ancillary_qubits)

IsSeqKind(arg) == arg.kind \in {"list", "register"}

mcmt(c, controls, ancillae, targets, md) ==
    IF ~IsSeqKind(controls) THEN Ret(c, "ValueError")
    ELSE IF ~IsSeqKind(targets) THEN Ret(c, "ValueError")
    ELSE IF ~(ancillae.kind = "None" \/ IsSeqKind(ancillae)) THEN Ret(c, "ValueError")
    ELSE
      LET control_qubits   == controls.qubits
          target_qubits    == targets.qubits
          ancillary_qubits == IF ancillae.kind = "None" THEN <<>> ELSE ancillae.qubits
          all_qubits       == control_qubits \o target_qubits \o ancillary_qubits
          chk              == CheckAll(all_qubits)
      IN  IF chk # "none" THEN Ret(c, chk)
          ELSE IF Len(controls.qubits) = 1
          THEN SingleControl(c, controls.qubits, target_qubits)
          ELSE IF md = "basic"
          THEN Basic(c, control_qubits, ancillary_qubits, target_qubits)
          ELSE Ret(c, "ValueError")

----------------------------------------------------------------------------
\* The arguments a call is made with.

Modes == {"basic", "other"}

\* the first n qubits of register r
Canon(r, n) == [i \in 1..n |-> <<r, i - 1>>]

\* What is wrong with the qubits of a call, if anything: the p-th of
\* controls + targets + ancillae is not a qubit of the circuit, or the
\* q-th is the same qubit as the p-th.
Defects(n) ==
    ({<<"none", 0, 0>>}
      \cup {<<"invalid", p, 0>> : p \in 1..n}
      \cup {<<"dup", p, q>> : p \in 1..n, q \in 1..n}) \ {<<"dup", p, p>> : p \in 1..n}

WithDefect(all, d) ==
    IF d[1] = "invalid" THEN [all EXCEPT ![d[2]] = BadQubit]
    ELSE IF d[1] = "dup" THEN [all EXCEPT ![d[3]] = all[d[2]]]
    ELSE all

\* The kinds of object passed as controls, targets and ancillae, at most
\* one of them not a list.
Shapes(a) ==
    {<<"list", "list", "list">>,
     <<"register", "list", "list">>, <<"other", "list", "list">>,
     <<"list", "register", "list">>, <<"list", "other", "list">>,
     <<"list", "list", "register">>, <<"list", "list", "other">>}
      \cup (IF a = 0 THEN {<<"list", "list", "None">>} ELSE {})

Arg(kind, qubits) == [kind |-> kind, qubits |-> qubits]

NoArg == Arg("list", <<>>)

----------------------------------------------------------------------------
\* Simulation of a gate sequence on classical values: ccx adds the AND of
\* its controls to its target, the single-control gate is applied to its
\* target when its control is 1.  bit[q] is the value of q, app[q] the
\* number of times the gate was applied to q.

SimStart(control_qubits, cv) ==
    [bit |-> [q \in Qubits |->
                 IF \E i \in 1..Len(control_qubits) : control_qubits[i] = q
                 THEN cv[CHOOSE i \in 1..Len(control_qubits) : control_qubits[i] = q]
                 ELSE 0],
     app |-> [q \in Qubits |-> 0]]

SimStep(s, g) ==
    IF g.gate = "ccx"
    THEN [s EXCEPT !.bit[g.tgt] = (@ + s.bit[g.ctls[1]] * s.bit[g.ctls[2]]) % 2]
    ELSE [s EXCEPT !.app[g.tgt] = @ + s.bit[g.ctls[1]]]

RECURSIVE SimRun(_, _, _)
SimRun(ops, i, s) ==
    IF i > Len(ops) THEN s ELSE SimRun(ops, i + 1, SimStep(s, ops[i]))

\* the gates the last call appended
Emitted == SubSeq(qc, Len(pre) + 1, Len(qc))

----------------------------------------------------------------------------
\* The state machine.

Init ==
    /\ qc = <<>>
    /\ pc = "idle"
    /\ pre = <<>>
    /\ q_controls = NoArg
    /\ q_ancillae = NoArg
    /\ q_targets = NoArg
    /\ mode = "basic"
    /\ err = "none"
    /\ cvals = <<>>
    /\ sim = SimStart(<<>>, <<>>)

\* self.mcmt(q_controls, q_ancillae, single_control_gate_fun, q_targets, mode)
Call ==
    /\ pc = "idle"
    /\ Len(qc) <= MaxPre
    /\ \E k \in 1..MaxK, a \in 0..MaxA, m \in 1..MaxM, md \in Modes :
         \E d \in Defects(k + m + a) :
           \E sh \in Shapes(a) :
             LET all == WithDefect(Canon("c", k) \o Canon("t", m) \o Canon("a", a), d)
                 cs  == Arg(sh[1], SubSeq(all, 1, k))
                 ts  == Arg(sh[2], SubSeq(all, k + 1, k + m))
                 as  == Arg(sh[3], SubSeq(all, k + m + 1, k + m + a))
                 r   == mcmt(qc, cs, as, ts, md)
             IN  /\ q_controls' = cs
                 /\ q_targets' = ts
                 /\ q_ancillae' = as
                 /\ mode' = md
                 /\ pre' = qc
                 /\ qc' = r.qc
                 /\ err' = r.err
    /\ pc' = "returned"
    /\ UNCHANGED <<cvals, sim>>

\* the gates of a call that returned are run on one assignment of the
\* controls, every other qubit starting at 0
Simulate ==
    /\ pc = "returned"
    /\ err = "none"
    /\ \E cv \in [1..Len(q_controls.qubits) -> {0, 1}] :
         /\ cvals' = cv
         /\ sim' = SimRun(Emitted, 1, SimStart(q_controls.qubits, cv))
    /\ pc' = "simulated"
    /\ UNCHANGED <<qc, pre, q_controls, q_ancillae, q_targets, mode, err>>

\* the caller goes on with the circuit as the call left it
Continue ==
    /\ pc \in {"returned", "simulated"}
    /\ pc' = "idle"
    /\ pre' = qc
    /\ q_controls' = NoArg
    /\ q_ancillae' = NoArg
    /\ q_targets' = NoArg
    /\ mode' = "basic"
    /\ err' = "none"
    /\ cvals' = <<>>
    /\ sim' = SimStart(<<>>, <<>>)
    /\ UNCHANGED qc

Next == Call \/ Simulate \/ Continue

Spec == Init /\ [][Next]_vars

----------------------------------------------------------------------------
\* What the claims speak of, read off the last call.

Returned == pc # "idle"

Succeeded == Returned /\ err = "none"

CQ == q_controls.qubits

TQ == q_targets.qubits

AQ == IF q_ancillae.kind = "None" THEN <<>> ELSE q_ancillae.qubits

K == Len(CQ)

M == Len(TQ)

A == Len(AQ)

AllQ == CQ \o TQ \o AQ

TypesOk ==
    /\ q_controls.kind \in {"list", "register"}
    /\ q_targets.kind \in {"list", "register"}
    /\ q_ancillae.kind \in {"list", "register", "None"}

SomeInvalid == \E i \in 1..Len(AllQ) : AllQ[i] = BadQubit

SomeTwice == Cardinality({AllQ[i] : i \in 1..Len(AllQ)}) < Len(AllQ)

\* the arguments are as the call requires, the ancilla count aside
ValidArgs == TypesOk /\ K >= 1 /\ M >= 1 /\ ~SomeInvalid /\ ~SomeTwice

AllOnes == \A i \in 1..K : cvals[i] = 1

IsAncilla(q) == \E i \in 1..A : AQ[i] = q

Operands(g) == {g.tgt} \cup {g.ctls[i] : i \in 1..Len(g.ctls)}

CountGate(ops, name) == Cardinality({i \in 1..Len(ops) : ops[i].gate = name})

\* the i-th fold of the chain on k-1 ancillae, i in 1..k-1
Fold(i) ==
    IF i = 1 THEN Ccx(CQ[1], CQ[2], AQ[1]) ELSE Ccx(CQ[i + 1], AQ[i - 1], AQ[i])

\* compute, one gate per target on the last ancilla, the folds reversed
VChain ==
    [n \in 1..(2 * (K - 1) + M) |->
        IF n <= K - 1 THEN Fold(n)
        ELSE IF n <= K - 1 + M THEN U(AQ[K - 1], TQ[n - (K - 1)])
        ELSE Fold(2 * (K - 1) + M + 1 - n)]

----------------------------------------------------------------------------
\* C1: for k >= 1 controls, m >= 1 targets and an ancilla pool with
\* |ancillae| >= k-2 when k >= 2, all ancillae 0, the emitted sequence
\* applies the gate to each target exactly when all k controls are 1.
C1_Correct ==
    (pc = "simulated" /\ ValidArgs /\ (K >= 2 => A >= K - 2))
        => \A j \in 1..M : sim.app[TQ[j]] = (IF AllOnes THEN 1 ELSE 0)

\* C2: for k >= 2 and any accepted ancilla pool, every ancilla has after
\* the emitted sequence the value it had before it (0).
C2_AncillaeRestored ==
    (pc = "simulated" /\ ValidArgs /\ K >= 2)
        => \A i \in 1..A : sim.bit[AQ[i]] = 0

\* C3: a call with k >= 2 controls and fewer than k-2 ancillae fails and
\* leaves the sequence as it was before the call.
C3_InsufficientIsAtomic ==
    (Returned /\ ValidArgs /\ mode = "basic" /\ K >= 2 /\ A < K - 2)
        => (err # "none" /\ qc = pre)

\* C4: a call whose mode is not "basic" fails with the unsupported-mode
\* error and appends nothing, the case of a single control included.
C4_UnsupportedMode ==
    (Returned /\ ValidArgs /\ mode # "basic")
        => (err = "ValueError" /\ qc = pre)

\* C5 as stated: with k >= 2 controls and mode "basic", valid distinct
\* qubits and |ancillae| >= k-2, the call completes without an error.
C5_Original ==
    (Returned /\ ValidArgs /\ mode = "basic" /\ K >= 2 /\ A >= K - 2)
        => err = "none"

\* C5 as amended: with k >= 2 controls and mode "basic", valid distinct
\* qubits and |ancillae| >= k-1, the call completes without an error.
C5_Total ==
    (Returned /\ ValidArgs /\ mode = "basic" /\ K >= 2 /\ A >= K - 1)
        => err = "none"

C5_Witness ==
    Returned /\ ValidArgs /\ mode = "basic" /\ K = 3 /\ A = 2 /\ err = "none"

\* C6 as stated: a successful call with k = 1 appends m single-control
\* gates and no ccx; with k >= 2 it appends 2(k-2) ccx and m
\* single-control gates.
C6_Original ==
    (Succeeded /\ ValidArgs)
        => /\ CountGate(Emitted, "u") = M
           /\ CountGate(Emitted, "ccx") = (IF K = 1 THEN 0 ELSE 2 * (K - 2))

\* C6 as amended: a successful call with k = 1 appends m single-control
\* gates and no ccx; with k >= 2 it appends k-1 ccx, then m single-control
\* gates, then k-1 ccx: 2(k-1) ccx in all.
C6_Counts ==
    (Succeeded /\ ValidArgs)
        => /\ Len(Emitted) = 2 * (K - 1) + M
           /\ \A n \in 1..Len(Emitted) :
                Emitted[n].gate = (IF K - 1 < n /\ n <= K - 1 + M THEN "u" ELSE "ccx")

C6_Witness ==
    Succeeded /\ ValidArgs /\ K = 4 /\ M = 2 /\ Len(Emitted) = 8

\* C7: when a qubit of controls + targets + ancillae is not a qubit of the
\* circuit, or a qubit occurs twice in that list, the call fails and the
\* sequence is as it was before the call, for every k and every mode.
C7_ValidationFirst ==
    (Returned /\ (SomeInvalid \/ SomeTwice))
        => (err # "none" /\ qc = pre)

C7_Witness ==
    Returned /\ SomeTwice /\ ~SomeInvalid /\ TypesOk /\ K = 1 /\ mode = "other"
        /\ Len(pre) = 1 /\ qc = pre

\* C8: with a single control, whatever the ancilla pool, the call appends
\* one single-control gate per target, in target order, each on the sole
\* control; no appended gate has an ancilla as an operand, and the
\* ancillae keep their values.
C8_SingleControl ==
    (Returned /\ ValidArgs /\ K = 1)
        => /\ err = "none"
           /\ Emitted = [j \in 1..M |-> U(CQ[1], TQ[j])]
           /\ \A n \in 1..Len(Emitted) : \A q \in Operands(Emitted[n]) : ~IsAncilla(q)
           /\ pc = "simulated" => \A i \in 1..A : sim.bit[AQ[i]] = 0

C8_Witness ==
    pc = "simulated" /\ ValidArgs /\ K = 1 /\ M = 2 /\ A = 2 /\ cvals[1] = 1

\* C9: with k >= 2, each single-control gate has as its control the last
\* ancilla written by the compute chain, the target of the ccx that
\* precedes the first of the single-control gates.
C9_ControlIsChainOutput ==
    (Succeeded /\ ValidArgs /\ K >= 2)
        => \A n \in 1..Len(Emitted) :
              (Emitted[n].gate = "u" /\ n > 1 /\ Emitted[n - 1].gate = "ccx")
                  => Emitted[n].ctls[1] = Emitted[n - 1].tgt

\* C10: with k >= 2, exactly k-1 ancillae and mode "basic" the call
\* completes and appends ccx(c0,c1,a0), ccx(c_i,a(i-2),a(i-1)) for
\* i = 2..k-1, one single-control gate on a(k-2) per target in target
\* order, and then the same ccx in reverse order.
C10_ExactSequence ==
    (Returned /\ ValidArgs /\ mode = "basic" /\ K >= 2 /\ A = K - 1)
        => (err = "none" /\ Emitted = VChain)

C10_Witness ==
    Succeeded /\ ValidArgs /\ mode = "basic" /\ K = 4 /\ A = 3 /\ M = 2
        /\ Len(pre) = 1

============================================================================
